---- MODULE Spec2Model ----
(***************************************************************************)
(* Model of head_probe.py: the CLI driver loop over (downstream task,      *)
(* finetuned setting) pairs, probe_heads (scan of the head grid, round     *)
(* robin device assignment, batched subprocess dispatch with a whole-batch *)
(* join and exit-code check) and probe_model (one synchronous subprocess). *)
(*                                                                         *)
(* Environment assumptions: the external collaborators succeed (TaskDefs   *)
(* finds the task definition, a finetuned checkpoint model_5*.pt exists    *)
(* whenever the command resumes from one, Popen and mkdir do not fail, the *)
(* captured stderr decodes), the training script leaves the scanned tree   *)
(* alone while the dispatcher runs, models_per_gpu >= 1 and the device     *)
(* list is not empty.                                                      *)
(***************************************************************************)
EXTENDS Integers, Sequences, FiniteSets, TLC

\* Side of the (layer, head) grid; stands for the 12 of range(12).
GridSize == 2
\* Longest device list, and the device ids 0..MaxDevices-1.
MaxDevices == 2
\* Largest --models_per_gpu.
MaxModelsPerGpu == 2

\* experiments.exp_def: the lingual settings (cross, multi, base) and the
\* experiments; NLI is the one the driver names, POS and NER stand for the
\* other members of the enumeration.
LingualSetting == <<"CROSS", "MULTI", "BASE">>
Experiment == <<"NLI", "POS", "NER">>

\* Exit statuses a subprocess can end with: success, 1, and another failure.
ExitCodes == {0, 1, 2}

SeqRange(s) == {s[x] : x \in DOMAIN s}

\* list.remove(x) of a list without duplicates.
Remove(s, x) == SelectSeq(s, LAMBDA e : e # x)

\* itertools.product(range(12), repeat=2): layer-major order.
GridSeq == [n \in 1..(GridSize * GridSize) |->
              <<(n - 1) \div GridSize, (n - 1) % GridSize>>]
Heads == SeqRange(GridSeq)

\* The tree under checkpoint_dir/<setting>: per head, no directory, a
\* directory without a model_1_*.pt file, or a directory with one.
FsStates == [Heads -> {"absent", "dir", "marker"}]

\* Slip: the scan does not look for the marker file at all.
AlwaysPending(f, h) == TRUE

\* Slip: a head counts as done as soon as its directory exists.
NoDirectory(f, h) == f[h] = "absent"

\* len(list(dir_for_head.rglob('model_1_*.pt'))) == 0
NoMarker(f, h) == f[h] # "marker"

\* Slip: the pending heads are collected in descending order.
ScanDescending(f) ==
  LET up == SelectSeq(GridSeq, LAMBDA h : NoMarker(f, h))
  IN [x \in 1..Len(up) |-> up[Len(up) + 1 - x]]

\* The scan loop: heads_to_probe, in grid order.
Scan(f) == SelectSeq(GridSeq, LAMBDA h : NoMarker(f, h))

\* Slip: `//` for `%`, consecutive jobs share a device.
DeviceForBlock(devs, i) == devs[((i \div Len(devs)) % Len(devs)) + 1]

\* Slip: the round robin starts one device late.
DeviceForShifted(devs, i) == devs[((i + 1) % Len(devs)) + 1]

\* devices[i % len(devices)], i counted from 0.
DeviceFor(devs, i) == devs[(i % Len(devs)) + 1]

\* The device_ids list built for n pending heads.
DeviceIds(devs, n) == [x \in 1..n |-> DeviceFor(devs, x - 1)]

\* checkpoint_dir.joinpath(...).mkdir(parents=True, exist_ok=True)
Mkdir(f, h) == [f EXCEPT ![h] = IF @ = "absent" THEN "dir" ELSE @]

\* Slips: the batch test lets one more process in; it forgets models_per_gpu.
BatchFullOneLate(procs, devs, mpg) == Len(procs) = Len(devs) * mpg + 1
BatchFullPerDevice(procs, devs, mpg) == Len(procs) = Len(devs)

\* len(processes) == len(devices) * models_per_gpu
BatchFull(procs, devs, mpg) == Len(procs) = Len(devs) * mpg

\* Slip: every non-zero exit code is an error.
IsErrorNonZero(stderr_captured, returncode) == stderr_captured /\ returncode # 0

\* (r[1] is not None) and (returncode == 1); stderr is a pipe, so r[1] is bytes.
IsError(stderr_captured, returncode) == stderr_captured /\ returncode = 1

\* Slip: the BASE case is forgotten and every command resumes.
ResumesAlways(s) == TRUE

\* `setting is not LingualSetting.BASE`: the command resumes from a checkpoint.
Resumes(s) == s # "BASE"

\* The nested driver loops, flattened: (downstream_task, setting) in order.
Pairs(tasks, settings) ==
  [n \in 1..(Len(tasks) * Len(settings)) |->
     <<tasks[((n - 1) \div Len(settings)) + 1],
       settings[((n - 1) % Len(settings)) + 1]>>]

MaxJobs == GridSize * GridSize
Jobs == 0..(MaxJobs - 1)

VARIABLES
  args,               \* parse_mode, finetuned_task, downstream_setting, models_per_gpu
  devices,            \* module-level device list
  downstream_tasks,   \* module-level list of tasks
  finetuned_settings, \* module-level list of settings
  k,                  \* position of the driver loops in Pairs (1-based)
  setting,            \* module-level loop variable `setting`
  pc,                 \* where the program is
  call,               \* arguments of the call in progress or last made
  fs,                 \* head tree of the call's checkpoint directory
  ckdir,              \* probe_model: checkpoint_dir.is_dir()
  heads_to_probe,
  device_ids,
  i,                  \* iterations of the dispatch loop done
  processes,          \* the in-memory list of (hl, hi, did, process)
  results,            \* outcome of the last communicate() round
  proc,               \* subprocess of each job: none, running, exited, collected
  template,           \* the last command line built
  completed,          \* jobs reported "completed"
  batches,            \* sizes of the communicate() rounds of the call
  launched,           \* Popen calls of the call
  launch_log          \* heads of the call's Popen calls, in order

vars == <<args, devices, downstream_tasks, finetuned_settings, k, setting, pc,
          call, fs, ckdir, heads_to_probe, device_ids, i, processes, results,
          proc, template, completed, batches, launched, launch_log>>

config == <<args, devices, downstream_tasks, finetuned_settings>>

\* Device lists: the default list(range(n)), and --devices lists that give
\* the same ids in reverse or give one id n times.
DeviceLists ==
  UNION {{[x \in 1..n |-> x - 1], [x \in 1..n |-> n - x], [x \in 1..n |-> 0]} :
           n \in 1..MaxDevices}

\* Trees an earlier, interrupted run of the dispatcher leaves behind: markers
\* on the first s heads of the grid order and, on request, bare directories
\* on all the heads after them.
ResumedTrees ==
  {[h \in Heads |->
      LET n == CHOOSE x \in DOMAIN GridSeq : GridSeq[x] = h
      IN IF n <= s THEN "marker" ELSE IF d THEN "dir" ELSE "absent"] :
     s \in 0..Len(GridSeq), d \in BOOLEAN}

NoProc == [j \in Jobs |-> "none"]
NoResults == [process |-> <<>>, returncode |-> <<>>]
NoTemplate == [probe |-> "none", resume |-> FALSE, ckpt_setting |-> "", devices |-> <<>>]
NoCall == [fn |-> "none", finetuned_setting |-> "", finetuned_task |-> "",
           downstream_setting |-> "", downstream_task |-> ""]

\* The argument parsing of __main__ and the lists it builds.
Init ==
  /\ args \in [parse_mode : {"heads", "model"},
               finetuned_task : SeqRange(Experiment),
               downstream_setting : SeqRange(LingualSetting),
               models_per_gpu : 1..MaxModelsPerGpu]
  /\ devices \in DeviceLists
  /\ downstream_tasks \in
       {<<t>> : t \in SeqRange(Experiment)} \cup {Remove(Experiment, "NLI")}
  /\ finetuned_settings \in
       {<<s>> : s \in SeqRange(LingualSetting)} \cup {LingualSetting}
  \* probe_heads uses finetuned_task in path names only and is not given
  \* downstream_setting; probe_model is not given models_per_gpu: their
  \* defaults stand for every value. The heads runs take two of the driver's list shapes.
  /\ args.parse_mode = "heads" =>
       /\ args.finetuned_task = "NLI"
       /\ args.downstream_setting = "MULTI"
       /\ <<downstream_tasks, finetuned_settings>> \in
            {<<(<<"POS">>), LingualSetting>>,
             <<Remove(Experiment, "NLI"), (<<"BASE">>)>>}
  /\ args.parse_mode = "model" => args.models_per_gpu = 1
  /\ k = 1
  /\ setting = "unset"
  /\ pc = "driver"
  /\ call = NoCall
  /\ fs = [h \in Heads |-> "absent"]
  /\ ckdir = FALSE
  /\ heads_to_probe = <<>>
  /\ device_ids = <<>>
  /\ i = 0
  /\ processes = <<>>
  /\ results = NoResults
  /\ proc = NoProc
  /\ template = NoTemplate
  /\ completed = {}
  /\ batches = <<>>
  /\ launched = 0
  /\ launch_log = <<>>

pairs == Pairs(downstream_tasks, finetuned_settings)

\* Slip: the driver swallows the fatal error and goes on.
DriverReadyAfterRaise == pc \in {"driver", "raised"} /\ k <= Len(pairs)

\* The driver loops have another (task, setting) pair to run.
DriverReady == pc = "driver" /\ k <= Len(pairs)

\* The two `for` statements, lines 174-175: bind the loop variables of the
\* next pair. The locals of the call that returned are gone.
DriverLoop ==
  /\ DriverReady
  /\ setting' = pairs[k][2]
  /\ pc' = "call"
  /\ call' = NoCall
  /\ fs' = [h \in Heads |-> "absent"]
  /\ ckdir' = FALSE
  /\ heads_to_probe' = <<>>
  /\ device_ids' = <<>>
  /\ i' = 0
  /\ processes' = <<>>
  /\ results' = NoResults
  /\ proc' = NoProc
  /\ template' = NoTemplate
  /\ completed' = {}
  /\ batches' = <<>>
  /\ launched' = 0
  /\ launch_log' = <<>>
  /\ UNCHANGED <<config, k>>

\* Slip: wait() for communicate(): with stderr piped the join can block for
\* good on a process that has filled the pipe.
JoinBlocksForGood(procs) == FALSE

\* Slip: the join gives up on a process that is still running.
JoinTimesOut(procs) == TRUE

\* Slip: only the last process of the list is joined.
LastExited(procs) ==
  \A x \in DOMAIN procs : x = Len(procs) => proc[procs[x].process] = "exited"

\* Slip: only the first process of the list is joined.
FirstExited(procs) == \A x \in DOMAIN procs : x = 1 => proc[procs[x].process] = "exited"

\* communicate() on every process of the list has returned.
AllExited(procs) == \A x \in DOMAIN procs : proc[procs[x].process] = "exited"

\* The outcomes one communicate() round can have: the processes waited on,
\* in list order, and the return code each one left.
Collect(procs) ==
  [process : {[x \in DOMAIN procs |-> procs[x].process]},
   returncode : [DOMAIN procs -> ExitCodes]]

\* Index of the first result the check loop raises on, 0 if none.
FirstError(res) ==
  IF \E x \in DOMAIN res.returncode : IsError(TRUE, res.returncode[x])
    THEN CHOOSE x \in DOMAIN res.returncode :
           /\ IsError(TRUE, res.returncode[x])
           /\ \A y \in 1..(x - 1) : ~IsError(TRUE, res.returncode[y])
    ELSE 0

\* communicate() reaps the exited processes of the list.
Reaped(procs) ==
  [j \in Jobs |-> IF /\ \E x \in DOMAIN procs : procs[x].process = j
                      /\ proc[j] = "exited"
                    THEN "collected" ELSE proc[j]]

\* probe_heads, lines 28-55, on a tree drawn from `trees`: scan it, return
\* if nothing is pending, else assign devices.
ProbeHeadsEntry(trees) ==
  /\ pc = "call"
  /\ args.parse_mode = "heads"
  /\ call' = [fn |-> "probe_heads", finetuned_setting |-> setting,
              finetuned_task |-> args.finetuned_task,
              downstream_setting |-> "", downstream_task |-> pairs[k][1]]
  /\ \E f \in trees :
       /\ fs' = f
       /\ heads_to_probe' = Scan(f)
       /\ device_ids' = DeviceIds(devices, Len(Scan(f)))
       /\ IF Len(Scan(f)) = 0
            THEN /\ pc' = "driver"
                 /\ k' = k + 1
            ELSE /\ pc' = "launch"
                 /\ k' = k
  /\ UNCHANGED <<config, setting, ckdir, i, processes, results, proc, template,
                 completed, batches, launched, launch_log>>

CallProbeHeads == ProbeHeadsEntry(ResumedTrees)

\* The same entry on an arbitrary tree.
CallProbeHeadsAnyTree == ProbeHeadsEntry(FsStates)

\* One iteration of the dispatch loop up to the batch test, lines 59-81.
Launch ==
  /\ pc = "launch"
  /\ i < Len(heads_to_probe)
  /\ LET hp == heads_to_probe[i + 1]
         did == device_ids[i + 1]
         appended == Append(processes,
                            [hl |-> hp[1], hi |-> hp[2], did |-> did, process |-> i])
     IN /\ fs' = Mkdir(fs, hp)
        /\ template' = [probe |-> "head", resume |-> Resumes(call.finetuned_setting),
                        ckpt_setting |-> IF Resumes(call.finetuned_setting)
                                           THEN call.finetuned_setting ELSE "",
                        devices |-> <<did>>]
        /\ proc' = [proc EXCEPT ![i] = "running"]
        /\ processes' = appended
        /\ pc' = IF BatchFull(appended, devices, args.models_per_gpu) THEN "wait"
                 ELSE IF i + 1 = Len(heads_to_probe) THEN "final"
                 ELSE "launch"
  /\ i' = i + 1
  /\ launched' = launched + 1
  /\ launch_log' = Append(launch_log, heads_to_probe[i + 1])
  /\ UNCHANGED <<config, k, setting, call, ckdir, heads_to_probe, device_ids,
                 results, completed, batches>>

\* A running subprocess ends.
ProcExit(j) ==
  /\ proc[j] = "running"
  /\ proc' = [proc EXCEPT ![j] = "exited"]
  /\ UNCHANGED <<config, k, setting, pc, call, fs, ckdir, heads_to_probe,
                 device_ids, i, processes, results, template, completed,
                 batches, launched, launch_log>>

\* The full batch: join every process, then the exit-code loop, lines 82-94.
WaitBatch ==
  /\ pc = "wait"
  /\ AllExited(processes)
  /\ results' \in Collect(processes)
  /\ LET bad == FirstError(results')
     IN IF bad > 0
          THEN /\ completed' = completed \cup
                                 {processes[x].process : x \in 1..(bad - 1)}
               /\ processes' = processes
               /\ pc' = "raised"
          ELSE /\ completed' = completed \cup
                                 {processes[x].process : x \in DOMAIN processes}
               /\ processes' = <<>>
               /\ pc' = IF i = Len(heads_to_probe) THEN "final" ELSE "launch"
  /\ proc' = Reaped(processes)
  /\ batches' = Append(batches, Len(processes))
  /\ UNCHANGED <<config, k, setting, call, fs, ckdir, heads_to_probe,
                 device_ids, i, template, launched, launch_log>>

\* After the loop: join what is left of the list and return, lines 96-97.
FinalWait ==
  /\ pc = "final"
  /\ AllExited(processes)
  /\ results' \in Collect(processes)
  /\ proc' = Reaped(processes)
  /\ batches' = Append(batches, Len(processes))
  /\ pc' = "driver"
  /\ k' = k + 1
  /\ UNCHANGED <<config, setting, call, fs, ckdir, heads_to_probe, device_ids,
                 i, processes, template, completed, launched, launch_log>>

\* Slip: the existing directory is not honoured.
NeverSkip(exists) == FALSE

\* checkpoint_dir.is_dir(): probe_model skips the pair.
SkipModel(exists) == exists

\* probe_model up to Popen, lines 104-144.
CallProbeModel ==
  /\ pc = "call"
  /\ args.parse_mode = "model"
  /\ call' = [fn |-> "probe_model", finetuned_setting |-> setting,
              finetuned_task |-> args.finetuned_task,
              downstream_setting |-> args.downstream_setting,
              downstream_task |-> pairs[k][1]]
  /\ \E d \in BOOLEAN :
       /\ ckdir' = d
       /\ IF SkipModel(d)
            THEN /\ pc' = "driver"
                 /\ k' = k + 1
                 /\ proc' = NoProc
                 /\ template' = NoTemplate
                 /\ launched' = 0
            ELSE /\ pc' = "model_wait"
                 /\ k' = k
                 /\ proc' = [NoProc EXCEPT ![0] = "running"]
                 \* line 134 reads the module-level `setting`
                 /\ template' = [probe |-> "model", resume |-> Resumes(setting),
                                 ckpt_setting |-> IF Resumes(setting)
                                                    THEN call'.finetuned_setting
                                                    ELSE "",
                                 devices |-> devices]
                 /\ launched' = 1
  /\ UNCHANGED <<config, setting, fs, heads_to_probe, device_ids, i, processes,
                 results, completed, batches, launch_log>>

\* Slip: probe_model returns without joining the subprocess.
ModelWaitNoJoin == TRUE

\* process.communicate() returned, whatever the status.
ModelWaitDone == proc[0] = "exited"

\* probe_model, line 145: join the subprocess and return.
ModelWait ==
  /\ pc = "model_wait"
  /\ ModelWaitDone
  /\ results' \in [process : {<<0>>}, returncode : [DOMAIN <<0>> -> ExitCodes]]
  /\ proc' = [proc EXCEPT ![0] = IF @ = "exited" THEN "collected" ELSE @]
  /\ pc' = "driver"
  /\ k' = k + 1
  /\ UNCHANGED <<config, setting, call, fs, ckdir, heads_to_probe, device_ids,
                 i, processes, template, completed, batches, launched, launch_log>>

Next ==
  \/ DriverLoop
  \/ CallProbeHeads
  \/ Launch
  \/ \E j \in Jobs : ProcExit(j)
  \/ WaitBatch
  \/ FinalWait
  \/ CallProbeModel
  \/ ModelWait

Spec == Init /\ [][Next]_vars

\* The steps of the Python program itself, and those of its subprocesses.
ProgramStep ==
  DriverLoop \/ CallProbeHeads \/ Launch \/ WaitBatch \/ FinalWait
    \/ CallProbeModel \/ ModelWait
SubprocessExit == \E j \in Jobs : ProcExit(j)

\* Runs with a default device list, list(range(n)), and two (task, setting)
\* pairs for the driver: device ids and further pairs add nothing to whether
\* the loops end.
InitLive ==
  /\ Init
  /\ \E n \in 1..MaxDevices : devices = [x \in 1..n |-> x - 1]
  /\ Len(pairs) = Len(Remove(Experiment, "NLI"))

\* The interpreter runs the next statement whenever it can, and every
\* launched subprocess eventually exits.
SpecLive ==
  InitLive /\ [][Next]_vars /\ WF_vars(ProgramStep) /\ WF_vars(SubprocessExit)

\* The scan on its own, over every tree.
InitScan == Init /\ args.parse_mode = "heads" /\ args.models_per_gpu = 1
NextScan ==
  \/ DriverLoop
  \/ CallProbeHeadsAnyTree
SpecScan == InitScan /\ [][NextScan]_vars

\* The batch size of the call: len(devices) * models_per_gpu.
BatchSize == Len(devices) * args.models_per_gpu

InProbeHeads == call.fn = "probe_heads"
InProbeModel == call.fn = "probe_model"

\* Position of a head in the pending list, counted from 0.
PendingIndex(hl, hi) ==
  (CHOOSE n \in DOMAIN heads_to_probe : heads_to_probe[n] = <<hl, hi>>) - 1

\* The last communicate() round: its positions, return codes and jobs.
ResultIdx == DOMAIN results.returncode
ReturnCode(x) == results.returncode[x]
ResultJob(x) == results.process[x]

\* The communicate() rounds of the call that joined at least one process.
IssuedBatches == SelectSeq(batches, LAMBDA b : b > 0)

\* C1: in probe_heads, a subprocess that returned exit code 1 in any batch,
\* the trailing one included, makes the run abort with the fatal error once
\* that batch's waits are complete.
C1_AbortOnExitCode1 ==
  (InProbeHeads /\ \E x \in ResultIdx : ReturnCode(x) = 1)
    => pc = "raised"

\* C2: at every point of a probe_heads run, the subprocesses launched and not
\* yet waited on, and the in-memory process list, number at most
\* len(devices) * models_per_gpu.
C2_BatchNeverExceedsCap ==
  InProbeHeads =>
    /\ Len(processes) <= BatchSize
    /\ Cardinality({j \in Jobs : proc[j] \in {"running", "exited"}}) <= BatchSize

C2_Witness ==
  /\ InProbeHeads
  /\ pc = "wait"
  /\ Len(processes) = BatchSize
  /\ BatchSize >= 2
  /\ i < Len(heads_to_probe)

\* C3: the n pending jobs are issued in exactly ceil(n / batch_size) batches:
\* every batch but the last has exactly batch_size jobs, and once all n jobs
\* are launched and joined the last batch has the remainder.
C3_BatchCount ==
  InProbeHeads =>
    LET n == Len(heads_to_probe)
        issued == IssuedBatches
        cnt == Len(issued)
    IN /\ \A b \in 1..(cnt - 1) : issued[b] = BatchSize
       /\ (\A j \in 0..(n - 1) : proc[j] = "collected") =>
            /\ cnt = (n + BatchSize - 1) \div BatchSize
            /\ cnt > 0 => issued[cnt] = n - (cnt - 1) * BatchSize

C3_Witness ==
  /\ InProbeHeads
  /\ pc = "driver"
  /\ Len(heads_to_probe) = 3
  /\ batches = <<2, 1>>

\* C4: batches are separated by a barrier: a job of a later batch is launched
\* only when every subprocess of every earlier batch has exited and been
\* joined, so a slot freed early is not reused while the batch still runs.
C4_BatchBarrier ==
  InProbeHeads =>
    \A x, j \in Jobs :
      (proc[j] # "none" /\ x \div BatchSize < j \div BatchSize)
        => proc[x] = "collected"

C4_Witness ==
  /\ InProbeHeads
  /\ pc = "wait"
  /\ i < Len(heads_to_probe)
  /\ \E x, y \in DOMAIN processes :
       /\ proc[processes[x].process] = "exited"
       /\ proc[processes[y].process] = "running"

\* C5: a (layer, head) pair of the grid is scheduled if and only if its
\* directory holds no model_1_*.pt file when the grid is scanned; a bare
\* directory does not count as completion.
C5_ScheduledIffNoMarker ==
  InProbeHeads =>
    \A h \in Heads : (h \in SeqRange(heads_to_probe)) <=> (fs[h] # "marker")

C5_Witness ==
  /\ InProbeHeads
  /\ \E g, h \in Heads :
       /\ fs[g] = "dir"
       /\ g \in SeqRange(heads_to_probe)
       /\ fs[h] = "marker"
       /\ h \notin SeqRange(heads_to_probe)

\* C6: the job at index i of the pending list (not of the grid) is launched
\* with device devices[i % len(devices)].
C6_RoundRobinDevice ==
  InProbeHeads =>
    \A x \in DOMAIN processes :
      LET p == processes[x]
          idx == PendingIndex(p.hl, p.hi)
      IN p.did = devices[(idx % Len(devices)) + 1]

C6_Witness ==
  /\ InProbeHeads
  /\ Len(processes) >= 2
  /\ processes[1].did # processes[2].did
  /\ heads_to_probe[1] # GridSeq[1]

\* C7: once probe_heads has raised its fatal error the run is over: nothing
\* is launched or retried, for the remaining heads or the remaining pairs.
C7_RaiseEndsTheRun ==
  [][pc = "raised" =>
       /\ pc' = "raised"
       /\ k' = k
       /\ proc' = proc
       /\ launched' = launched]_vars

C7_Witness ==
  /\ pc = "raised"
  /\ i < Len(heads_to_probe)
  /\ k < Len(pairs)

C9_ExistingDirNoLaunch ==
  (InProbeModel /\ ckdir) =>
    /\ launched = 0
    /\ proc = NoProc
    /\ pc = "driver"

C9_Witness ==
  /\ InProbeModel
  /\ ckdir
  /\ pc = "driver"
  /\ call.finetuned_setting # "BASE"
  /\ k <= Len(pairs)

\* C10: when the target directory does not exist probe_model launches
\* exactly one subprocess, returns only after it has exited, and returns
\* normally whatever the exit code.
C10_OneSynchronousLaunch ==
  (InProbeModel /\ ~ckdir) =>
    /\ launched = 1
    /\ Cardinality({j \in Jobs : proc[j] # "none"}) = 1
    /\ pc \in {"model_wait", "driver"}
    /\ pc = "driver" =>
         /\ proc[0] = "collected"
         /\ ResultIdx = {1}
         /\ ResultJob(1) = 0

C10_Witness ==
  /\ InProbeModel
  /\ ~ckdir
  /\ pc = "driver"
  /\ ReturnCode(1) = 1
  /\ k <= Len(pairs)

\* C11: while a launched subprocess has not exited the pipeline is stuck at
\* its join: no step launches a job of a later batch, raises, returns or
\* moves the driver to the next pair; only subprocess exits can happen.
C11_HangBlocksPipeline ==
  [][\A j \in Jobs :
       (proc[j] = "running" /\ proc'[j] = "running") =>
         /\ k' = k
         /\ pc' \in {"launch", "wait", "final", "model_wait"}
         /\ \A x \in Jobs :
              (proc[x] = "none" /\ proc'[x] # "none")
                => x \div BatchSize = j \div BatchSize]_vars

C11_Witness ==
  /\ InProbeHeads
  /\ pc = "wait"
  /\ i < Len(heads_to_probe)
  /\ k < Len(pairs)
  /\ \E x, y \in DOMAIN processes :
       /\ proc[processes[x].process] = "running"
       /\ proc[processes[y].process] = "exited"

\* C12: when every head of the grid has a marker file probe_heads is a
\* no-op: it returns with nothing launched and the tree as it was.
C12_AllDoneIsNoOp ==
  (InProbeHeads /\ \A h \in Heads : fs[h] = "marker") =>
    /\ pc = "driver"
    /\ heads_to_probe = <<>>
    /\ launched = 0
    /\ launch_log = <<>>
    /\ processes = <<>>
    /\ proc = NoProc
    /\ batches = <<>>

C12_Witness ==
  /\ InProbeHeads
  /\ \A h \in Heads : fs[h] = "marker"
  /\ pc = "driver"
  /\ k = 2
  /\ k <= Len(pairs)

\* C13: on every probe_model call of the driver loop the module-level
\* `setting` equals the call's finetuned_setting, so the command carries
\* --resume --model_ckpt exactly when finetuned_setting is not BASE, and the
\* checkpoint it names is that setting's.
C13_SettingIsFinetunedSetting ==
  InProbeModel =>
    /\ setting = call.finetuned_setting
    /\ call.finetuned_setting = pairs[IF pc = "driver" THEN k - 1 ELSE k][2]
    /\ template.probe = "model" =>
         /\ template.resume <=> (call.finetuned_setting # "BASE")
         /\ template.resume => template.ckpt_setting = call.finetuned_setting

C13_Witness ==
  /\ InProbeModel
  /\ pc = "model_wait"
  /\ k = 3
  /\ call.finetuned_setting = "BASE"
  /\ template.probe = "model"
  /\ ~template.resume

DistinctDevices == \A x, y \in DOMAIN devices : x # y => devices[x] # devices[y]

\* Processes of the in-memory list on device d that are not yet joined.
OnDevice(d) ==
  {x \in DOMAIN processes :
     /\ processes[x].did = d
     /\ proc[processes[x].process] \in {"running", "exited"}}

\* C14: with distinct device ids (and models_per_gpu >= 1) no device ever
\* has more than models_per_gpu unjoined subprocesses, all launched and
\* unjoined subprocesses are in the list, and a full batch has exactly
\* models_per_gpu on each device.
C14_PerDeviceLoad ==
  (InProbeHeads /\ DistinctDevices) =>
    /\ \A j \in Jobs :
         proc[j] \in {"running", "exited"}
           => \E x \in DOMAIN processes : processes[x].process = j
    /\ \A d \in SeqRange(devices) :
         Cardinality(OnDevice(d)) <= args.models_per_gpu
    /\ pc = "wait" =>
         \A d \in SeqRange(devices) :
           Cardinality({x \in DOMAIN processes : processes[x].did = d})
             = args.models_per_gpu

C14_Witness ==
  /\ InProbeHeads
  /\ DistinctDevices
  /\ Len(devices) = 2
  /\ args.models_per_gpu = 2
  /\ pc = "wait"
  /\ \A x \in DOMAIN processes : proc[processes[x].process] = "running"

\* C15: whenever probe_heads has finished, by returning or by raising, none
\* of the subprocesses it launched is running or unjoined, so the driver
\* moves to the next pair with nothing of the previous pair alive.
C15_NothingRunsAfterTheCall ==
  (InProbeHeads /\ pc \in {"driver", "raised"}) =>
    \A j \in Jobs : proc[j] \in {"none", "collected"}

C15_Witness ==
  /\ InProbeHeads
  /\ pc = "driver"
  /\ k <= Len(pairs)
  /\ launched >= 3
  /\ Len(IssuedBatches) >= 2
  /\ \A j \in 0..(launched - 1) : proc[j] = "collected"

\* (layer, head) a comes before b in grid order.
HeadBefore(a, b) == a[1] < b[1] \/ (a[1] = b[1] /\ a[2] < b[2])

\* C16: probe_heads launches heads in strictly ascending (layer, head)
\* order, hence none twice, and none that has a marker; a run that ends
\* without the fatal error (no subprocess exited 1) has launched every
\* pending head.
C16_EachPendingHeadOnceInOrder ==
  InProbeHeads =>
    /\ launched = Len(launch_log)
    /\ \A x, y \in DOMAIN launch_log :
         x < y => HeadBefore(launch_log[x], launch_log[y])
    /\ \A x \in DOMAIN launch_log : fs[launch_log[x]] # "marker"
    /\ pc = "driver" =>
         SeqRange(launch_log) = {h \in Heads : fs[h] # "marker"}

C16_Witness ==
  /\ InProbeHeads
  /\ pc = "driver"
  /\ Len(launch_log) = 3
  /\ Len(IssuedBatches) >= 2
  /\ fs[GridSeq[1]] = "marker"
  /\ \A x \in ResultIdx : ReturnCode(x) # 1

\* The call in progress, if any, is over; the whole run is over.
CallOver == pc \in {"driver", "raised"}
RunOver == pc = "raised" \/ (pc = "driver" /\ k > Len(pairs))

\* C17: if every launched subprocess eventually exits, every probe_heads
\* call eventually returns or raises, and the driver loop over the
\* (task, setting) pairs eventually ends, for good.
C17_EverythingTerminates ==
  /\ [](InProbeHeads => <>CallOver)
  /\ <>[]RunOver

C17_Witness ==
  /\ InProbeHeads
  /\ pc = "driver"
  /\ k > Len(pairs)
  /\ k > 2
  /\ Len(IssuedBatches) >= 2

====
